---- MODULE Spec2Model ----
(***************************************************************************)
(* Model of process_gene_data.py: the per-layer aggregation of transcript  *)
(* rows into one dataset per gene, followed by the per-gene artifact       *)
(* writer.                                                                 *)
(*                                                                         *)
(* A CSV cell is <<"num", ip, frac>> (the float ip + frac/10, frac being   *)
(* 0 or 5) or <<"str", 0, 0>> (a token pandas left as a string).  A stored *)
(* coordinate is <<"int", ip, 0>> or <<"float", ip, frac>>, which is how   *)
(* json.dumps tells 10 from 10.0.  A row is <<gene, x, y>>.  A Python dict *)
(* is the sequence of its <<key, value>> items in insertion order.         *)
(***************************************************************************)
EXTENDS Integers, Sequences, FiniteSets, TLC

VARIABLES
    pc,          \* position of the script
    layerStop,   \* exclusive end of the configured layer range
    layer,       \* loop variable of the layer loop (next index to attempt)
    df,          \* rows of the layer file read last
    gi,          \* position of the per-gene loop in genes_to_process
    gene_data,   \* gene -> {"layers": dict}
    wi,          \* position of the writer loop in gene_data.items()
    written,     \* gene -> artifact file of this run
    attempted,   \* layers whose progress notice was printed, in order
    outcome,     \* layer -> <<how the attempt ended, genes handled for it>>
    skipped,     \* genes whose skip notice was printed
    saved,       \* genes whose size notice was printed
    scenario     \* the inputs consumed so far are those of the 43-45 scenario

vars == <<pc, layerStop, layer, df, gi, gene_data, wi, written, attempted,
          outcome, skipped, saved, scenario>>

(* ---------------------------- bounds ----------------------------------- *)
\* number of layers of the widest configured range (the script has 17)
NumLayers == 3
\* longest layer file, in rows
MaxRows == 2

(* ------------------------- configuration ------------------------------- *)
LayerStart == 43

genes_to_process ==
    <<"ackr3b", "acvr1ba", "add3b", "adka", "admp", "ahi1", "akap12b">>

GeneSet == {genes_to_process[i] : i \in DOMAIN genes_to_process}

NumGenes == Len(genes_to_process)

Layers == LayerStart .. (layerStop - 1)

AllLayers == LayerStart .. (LayerStart + NumLayers - 1)

(* ----------------------------- inputs ---------------------------------- *)
\* Rows the layer files are cut from: two tracked genes, one gene outside
\* the gene set ("aldob"), whole and fractional coordinates, and one row
\* whose y cell is not a number.
SampleRows ==
    << <<"ackr3b", <<"num", 3, 0>>,  <<"num", 4, 5>> >>,
       <<"adka",   <<"num", 10, 0>>, <<"num", 20, 0>> >>,
       <<"adka",   <<"num", 10, 5>>, <<"num", 21, 0>> >>,
       <<"aldob",  <<"num", 7, 0>>,  <<"num", 8, 5>> >>,
       <<"ackr3b", <<"num", 1, 5>>,  <<"num", 2, 0>> >>,
       <<"adka",   <<"num", 10, 0>>, <<"str", 0, 0>> >> >>

\* the layer tables: the runs of at most MaxRows consecutive sample rows
Tables ==
    UNION { { SubSeq(SampleRows, i, i + n - 1) : i \in 1 .. (Len(SampleRows) - n + 1) } :
              n \in 0 .. MaxRows }

\* What can be found at csv_path: nothing, a file read_csv rejects, a table
\* without the required columns, or a table of rows.
LayerFiles ==
    { [kind |-> k, rows |-> <<>>] : k \in {"missing", "corrupt", "nocolumns"} }
    \cup { [kind |-> "table", rows |-> t] : t \in Tables }

(* --------------------------- pure helpers ------------------------------ *)
\* str(layer)
Str(n) == ToString(n)

\* value.is_integer() on a float cell
is_integer(c) == c[3] = 0

\* .is_integer() exists on the cell (it raises AttributeError otherwise)
IsNumber(c) == c[1] = "num"

\* slip: the value is always kept as a float
NormalizeAlwaysFloat(c) == <<"float", c[2], c[3]>>

\* int(v) if v.is_integer() else float(v)
Normalize(c) == IF is_integer(c) THEN <<"int", c[2], 0>> ELSE <<"float", c[2], c[3]>>

\* df[df['gene'] == gene]
FilterGene(rows, gene) == SelectSeq(rows, LAMBDA r : r[1] = gene)

\* slip: coords.append(y) is forgotten
RECURSIVE FlattenDropsY(_)
FlattenDropsY(rows) ==
    IF rows = <<>> THEN <<>>
    ELSE <<Normalize(Head(rows)[2])>> \o FlattenDropsY(Tail(rows))

\* slip: each pair is put in front of the list (coords = [x, y] + coords)
RECURSIVE FlattenReversed(_)
FlattenReversed(rows) ==
    IF rows = <<>> THEN <<>>
    ELSE FlattenReversed(Tail(rows)) \o
         <<Normalize(Head(rows)[2]), Normalize(Head(rows)[3])>>

\* the row loop: coords.append(x); coords.append(y)
RECURSIVE Flatten(_)
Flatten(rows) ==
    IF rows = <<>> THEN <<>>
    ELSE <<Normalize(Head(rows)[2]), Normalize(Head(rows)[3])>> \o Flatten(Tail(rows))

\* the row loop raises on some row
RowLoopRaises(rows) ==
    \E i \in DOMAIN rows : ~IsNumber(rows[i][2]) \/ ~IsNumber(rows[i][3])

HasKey(d, k) == \E i \in DOMAIN d : d[i][1] = k

Keys(d) == { d[i][1] : i \in DOMAIN d }

\* d[k] = v
DictSet(d, k, v) ==
    IF HasKey(d, k)
    THEN [i \in DOMAIN d |-> IF d[i][1] = k THEN <<k, v>> ELSE d[i]]
    ELSE Append(d, <<k, v>>)

\* gene_data[gene]["layers"][str(layer)] = coords
StoreLayer(gene, coords) ==
    [gene_data EXCEPT ![gene].layers = DictSet(@, Str(layer), coords)]

\* slip: the writer skips a gene only when it has no layer key at all
AllEmptyNoKeys(data) == Len(data.layers) = 0

\* all(len(coords) == 0 for coords in data["layers"].values())
AllEmpty(data) == \A i \in DOMAIN data.layers : Len(data.layers[i][2]) = 0

NoFile == [status |-> "absent", data |-> [layers |-> <<>>]]

\* Whether the file found for layer L is the one the 43-45 scenario has
\* there: adka's rows of layer 43 are (10, 20) and (10.5, 21), layer 44 has
\* no file, adka has no row in layer 45.
ScenarioFile(L, f) ==
    CASE L = 43 -> /\ f.kind = "table"
                   /\ ~RowLoopRaises(f.rows)
                   /\ FilterGene(f.rows, "adka") =
                        << <<"adka", <<"num", 10, 0>>, <<"num", 20, 0>> >>,
                           <<"adka", <<"num", 10, 5>>, <<"num", 21, 0>> >> >>
      [] L = 44 -> f.kind = "missing"
      [] L = 45 -> /\ f.kind = "table"
                   /\ ~RowLoopRaises(f.rows)
                   /\ FilterGene(f.rows, "adka") = <<>>
      [] OTHER -> FALSE

(* ------------------------------ Init ----------------------------------- *)
Init ==
    /\ pc = "start"
    /\ layerStop \in (LayerStart + 1) .. (LayerStart + NumLayers)
    /\ layer = LayerStart
    /\ df = <<>>
    /\ gi = 1
    /\ gene_data = [g \in GeneSet |-> [layers |-> <<>>]]
    /\ wi = 1
    /\ written = [g \in GeneSet |-> NoFile]
    /\ attempted = <<>>
    /\ outcome = [L \in AllLayers |-> <<"pending", 0>>]
    /\ skipped = {}
    /\ saved = {}
    /\ scenario = (layerStop = 46)

(* ----------------------------- actions --------------------------------- *)
\* os.makedirs(output_dir, exist_ok=True) succeeds
MakeDirs ==
    /\ pc = "start"
    /\ pc' = "layer"
    /\ UNCHANGED <<layerStop, layer, df, gi, gene_data, wi, written, attempted,
                   outcome, skipped, saved, scenario>>

\* os.makedirs raises: the script ends before the layer loop
MakeDirsFails ==
    /\ pc = "start"
    /\ pc' = "crashed"
    /\ UNCHANGED <<layerStop, layer, df, gi, gene_data, wi, written, attempted,
                   outcome, skipped, saved, scenario>>

\* the end of one iteration of the layer loop that handled n genes
EndLayer(kind, n, f) ==
    /\ attempted' = Append(attempted, layer)
    /\ outcome' = [outcome EXCEPT ![layer] = <<kind, n>>]
    /\ scenario' = (scenario /\ ScenarioFile(layer, f))
    /\ layer' = layer + 1
    /\ pc' = "layer"

\* slip: a missing file stores the empty list for every gene
MissingFileStoresEmpty ==
    /\ pc = "layer"
    /\ layer < layerStop
    /\ \E f \in LayerFiles :
         /\ f.kind = "missing"
         /\ EndLayer("missing", 0, f)
    /\ gene_data' = [g \in GeneSet |->
                       [layers |-> DictSet(gene_data[g].layers, Str(layer), <<>>)]]
    /\ UNCHANGED <<layerStop, df, gi, wi, written, skipped, saved>>

\* the file of the layer does not exist: warning, continue
MissingFile ==
    /\ pc = "layer"
    /\ layer < layerStop
    /\ \E f \in LayerFiles :
         /\ f.kind = "missing"
         /\ EndLayer("missing", 0, f)
    /\ UNCHANGED <<layerStop, df, gi, gene_data, wi, written, skipped, saved>>

\* pd.read_csv raises: caught by the except of the layer
ReadFails ==
    /\ pc = "layer"
    /\ layer < layerStop
    /\ \E f \in LayerFiles :
         /\ f.kind = "corrupt"
         /\ EndLayer("failed", 0, f)
    /\ UNCHANGED <<layerStop, df, gi, gene_data, wi, written, skipped, saved>>

\* a required column is missing: error notice, continue
SchemaViolation ==
    /\ pc = "layer"
    /\ layer < layerStop
    /\ \E f \in LayerFiles :
         /\ f.kind = "nocolumns"
         /\ EndLayer("schema", 0, f)
    /\ UNCHANGED <<layerStop, df, gi, gene_data, wi, written, skipped, saved>>

\* the file is read and has the columns: the per-gene loop starts
ReadLayer ==
    /\ pc = "layer"
    /\ layer < layerStop
    /\ \E f \in LayerFiles :
         /\ f.kind = "table"
         /\ df' = f.rows
         /\ scenario' = (scenario /\ ScenarioFile(layer, f))
    /\ attempted' = Append(attempted, layer)
    /\ outcome' = [outcome EXCEPT ![layer] = <<"reading", 0>>]
    /\ gi' = 1
    /\ pc' = "genes"
    /\ UNCHANGED <<layerStop, layer, gene_data, wi, written, skipped, saved>>

\* the per-gene loop moves on after a gene was handled
NextGene ==
    IF gi < NumGenes
    THEN /\ gi' = gi + 1
         /\ outcome' = [outcome EXCEPT ![layer] = <<"reading", gi>>]
         /\ UNCHANGED <<layer, pc>>
    ELSE /\ gi' = gi
         /\ outcome' = [outcome EXCEPT ![layer] = <<"ok", gi>>]
         /\ layer' = layer + 1
         /\ pc' = "layer"

\* len(gene_df) == 0: the empty list is stored
GeneNoRows ==
    /\ pc = "genes"
    /\ FilterGene(df, genes_to_process[gi]) = <<>>
    /\ gene_data' = StoreLayer(genes_to_process[gi], <<>>)
    /\ NextGene
    /\ UNCHANGED <<layerStop, df, wi, written, attempted, skipped, saved, scenario>>

\* the rows of the gene are flattened and stored
GeneStore ==
    /\ pc = "genes"
    /\ FilterGene(df, genes_to_process[gi]) # <<>>
    /\ ~RowLoopRaises(FilterGene(df, genes_to_process[gi]))
    /\ gene_data' = StoreLayer(genes_to_process[gi],
                               Flatten(FilterGene(df, genes_to_process[gi])))
    /\ NextGene
    /\ UNCHANGED <<layerStop, df, wi, written, attempted, skipped, saved, scenario>>

\* slip: the exception of the row loop is not caught and ends the script
GeneFailsEscapes ==
    /\ pc = "genes"
    /\ RowLoopRaises(FilterGene(df, genes_to_process[gi]))
    /\ outcome' = [outcome EXCEPT ![layer] = <<"failed", gi - 1>>]
    /\ pc' = "crashed"
    /\ UNCHANGED <<layerStop, layer, df, gi, gene_data, wi, written, attempted,
                   skipped, saved, scenario>>

\* the row loop raises: caught by the except of the layer, coords is dropped
GeneFails ==
    /\ pc = "genes"
    /\ RowLoopRaises(FilterGene(df, genes_to_process[gi]))
    /\ outcome' = [outcome EXCEPT ![layer] = <<"failed", gi - 1>>]
    /\ layer' = layer + 1
    /\ pc' = "layer"
    /\ UNCHANGED <<layerStop, df, gi, gene_data, wi, written, attempted, skipped,
                   saved, scenario>>

\* slip: the writer loop is inside the layer loop and runs after one layer
LayersDoneEarly ==
    /\ pc = "layer"
    /\ layer > LayerStart
    /\ wi' = 1
    /\ pc' = "write"
    /\ UNCHANGED <<layerStop, layer, df, gi, gene_data, written, attempted, outcome,
                   skipped, saved, scenario>>

\* range(43, 60) is exhausted: the writer loop starts
LayersDone ==
    /\ pc = "layer"
    /\ layer >= layerStop
    /\ wi' = 1
    /\ pc' = "write"
    /\ UNCHANGED <<layerStop, layer, df, gi, gene_data, written, attempted, outcome,
                   skipped, saved, scenario>>

\* every layer list of the gene is empty: skip notice
SkipGene ==
    /\ pc = "write"
    /\ wi <= NumGenes
    /\ AllEmpty(gene_data[genes_to_process[wi]])
    /\ skipped' = skipped \cup {genes_to_process[wi]}
    /\ wi' = wi + 1
    /\ UNCHANGED <<pc, layerStop, layer, df, gi, gene_data, written, attempted,
                   outcome, saved, scenario>>

\* json.dumps, gzip.open, write, size notice
WriteArtifact ==
    /\ pc = "write"
    /\ wi <= NumGenes
    /\ ~AllEmpty(gene_data[genes_to_process[wi]])
    /\ written' = [written EXCEPT ![genes_to_process[wi]] =
                     [status |-> "complete", data |-> gene_data[genes_to_process[wi]]]]
    /\ saved' = saved \cup {genes_to_process[wi]}
    /\ wi' = wi + 1
    /\ UNCHANGED <<pc, layerStop, layer, df, gi, gene_data, attempted, outcome,
                   skipped, scenario>>

\* slip: the failed write is caught and the writer loop goes on
WriteFailsRecovered ==
    /\ pc = "write"
    /\ wi <= NumGenes
    /\ ~AllEmpty(gene_data[genes_to_process[wi]])
    /\ \E st \in {"absent", "partial"} :
         written' = [written EXCEPT ![genes_to_process[wi]] =
                       [status |-> st, data |-> [layers |-> <<>>]]]
    /\ wi' = wi + 1
    /\ UNCHANGED <<pc, layerStop, layer, df, gi, gene_data, attempted, outcome,
                   skipped, saved, scenario>>

\* gzip.open or the write raises: nothing catches it, the script ends.  The
\* file of the gene was not created, or was created and not written whole.
WriteFails ==
    /\ pc = "write"
    /\ wi <= NumGenes
    /\ ~AllEmpty(gene_data[genes_to_process[wi]])
    /\ \E st \in {"absent", "partial"} :
         written' = [written EXCEPT ![genes_to_process[wi]] =
                       [status |-> st, data |-> [layers |-> <<>>]]]
    /\ pc' = "crashed"
    /\ UNCHANGED <<layerStop, layer, df, gi, gene_data, wi, attempted, outcome,
                   skipped, saved, scenario>>

\* the writer loop is exhausted: completion notice
Complete ==
    /\ pc = "write"
    /\ wi > NumGenes
    /\ pc' = "done"
    /\ UNCHANGED <<layerStop, layer, df, gi, gene_data, wi, written, attempted,
                   outcome, skipped, saved, scenario>>

Next ==
    \/ MakeDirs
    \/ MakeDirsFails
    \/ MissingFile
    \/ ReadFails
    \/ SchemaViolation
    \/ ReadLayer
    \/ GeneNoRows
    \/ GeneStore
    \/ GeneFails
    \/ LayersDone
    \/ SkipGene
    \/ WriteArtifact
    \/ WriteFails
    \/ Complete

Spec == Init /\ [][Next]_vars

\* The script is one sequential process: a step that can be taken is taken.
LiveSpec == Spec /\ WF_vars(Next)

(* ------------------------ vocabulary of the properties ----------------- *)
IndexOf(g) == CHOOSE i \in 1 .. NumGenes : genes_to_process[i] = g

\* the attempt of layer L has ended
Ended(L) == outcome[L][1] \in {"missing", "schema", "failed", "ok"}

AllAttempted == attempted = [i \in 1 .. (layerStop - LayerStart) |-> LayerStart + i - 1]

\* the dataset d has the list v under the key of layer L
Holds(d, L, v) == \E i \in DOMAIN d.layers : d.layers[i] = <<Str(L), v>>

SomeNonEmpty(d) == \E i \in DOMAIN d.layers : Len(d.layers[i][2]) > 0

\* the number a cell or a stored coordinate stands for
NumVal(c) == <<c[2], c[3]>>

\* the rows of one gene, in source order
RECURSIVE RowsOf(_, _)
RowsOf(rows, g) ==
    IF rows = <<>> THEN <<>>
    ELSE IF Head(rows)[1] = g THEN <<Head(rows)>> \o RowsOf(Tail(rows), g)
    ELSE RowsOf(Tail(rows), g)

\* v is x0, y0, x1, y1, ... over rows
Interleaves(v, rows) ==
    /\ Len(v) = 2 * Len(rows)
    /\ \A k \in DOMAIN rows :
         /\ NumVal(v[2 * k - 1]) = NumVal(rows[k][2])
         /\ NumVal(v[2 * k]) = NumVal(rows[k][3])

WriterCrashed == pc = "crashed" /\ layer = layerStop

C4_ArtifactIffData ==
    pc = "done" =>
        \A g \in GeneSet :
            /\ written[g].status = "complete" <=> SomeNonEmpty(gene_data[g])
            /\ written[g].status = "absent" <=> ~SomeNonEmpty(gene_data[g])
            /\ g \in skipped <=> ~SomeNonEmpty(gene_data[g])
            /\ g \in saved <=> SomeNonEmpty(gene_data[g])

C4_Witness ==
    /\ pc = "done"
    /\ \E g \in GeneSet : gene_data[g].layers = <<>> /\ g \in skipped
    /\ \E g \in GeneSet :
         gene_data[g].layers # <<>> /\ ~SomeNonEmpty(gene_data[g]) /\ g \in skipped
    /\ \E g \in GeneSet : written[g].status = "complete"

(* ------------------------------- C5 ------------------------------------ *)
\* C5: in every state every stored coordinate list has even length.
C5_EvenLength ==
    \A g \in GeneSet :
        \A i \in DOMAIN gene_data[g].layers :
            Len(gene_data[g].layers[i][2]) % 2 = 0

C5_Witness ==
    \E L \in Layers :
        /\ outcome[L][1] = "failed"
        /\ outcome[L][2] > 0
        /\ \E g \in GeneSet :
             \E i \in DOMAIN gene_data[g].layers :
                 /\ gene_data[g].layers[i][1] = Str(L)
                 /\ Len(gene_data[g].layers[i][2]) > 0

(* ------------------------------- C6 ------------------------------------ *)
\* C6 (as claimed): once the layer loop has started, whatever the outcome of
\* each layer, every configured layer is attempted, every gene is then
\* written or skipped, and the completion notice is reached.
C6_AlwaysCompletes ==
    (pc = "layer" /\ layer = LayerStart) ~>
        (pc = "done" /\ AllAttempted /\ skipped \cup saved = GeneSet)

\* C6 (amended): once the layer loop has started, whatever the outcome of
\* each layer, every configured layer is attempted and the writer loop is
\* reached; the writer then considers every gene and the completion notice
\* is reached, unless the write of an artifact fails, which ends the run.
C6_CompletesUnlessWriteFails ==
    /\ (pc = "layer" /\ layer = LayerStart) ~>
          (pc = "write" /\ wi = 1 /\ AllAttempted /\ \A L \in Layers : Ended(L))
    /\ (pc = "write") ~>
          \/ pc = "done" /\ AllAttempted /\ skipped \cup saved = GeneSet
          \/ WriterCrashed

C6_Witness ==
    /\ pc = "done"
    /\ skipped \cup saved = GeneSet
    /\ saved # {}
    /\ \E L \in Layers : outcome[L][1] = "failed"
    /\ \E L \in Layers : outcome[L][1] \in {"missing", "schema"}

(* ------------------------------- C7 ------------------------------------ *)
\* C7: a writer step that gives the gene neither a size notice nor a skip
\* notice (its write failed) ends the run there; the run stays ended and
\* its files stay as they are; no later gene has an artifact or a notice,
\* and every earlier gene with a size notice keeps its whole artifact.
C7_WriterFailureEndsRun ==
    /\ [][(pc = "write" /\ wi <= NumGenes
            /\ genes_to_process[wi] \notin (skipped' \cup saved'))
          => (pc' = "crashed" /\ wi' = wi /\ skipped' = skipped /\ saved' = saved
              /\ \A g \in GeneSet \ {genes_to_process[wi]} : written'[g] = written[g])]_vars
    /\ [][pc = "crashed" => (pc' = "crashed" /\ written' = written)]_vars
    /\ [](WriterCrashed =>
            /\ \A j \in 1 .. NumGenes :
                 j > wi => /\ written[genes_to_process[j]].status = "absent"
                           /\ genes_to_process[j] \notin (skipped \cup saved)
            /\ \A j \in 1 .. NumGenes :
                 (j < wi /\ genes_to_process[j] \in saved) =>
                    written[genes_to_process[j]] =
                        [status |-> "complete", data |-> gene_data[genes_to_process[j]]])

C7_Witness ==
    /\ WriterCrashed
    /\ wi < NumGenes
    /\ \E j \in 1 .. NumGenes : j < wi /\ written[genes_to_process[j]].status = "complete"
    /\ \E j \in 1 .. NumGenes : j < wi /\ genes_to_process[j] \in skipped

StoredFrom(g, L, rows) ==
    \E i \in DOMAIN gene_data[g].layers :
        /\ gene_data[g].layers[i][1] = Str(L)
        /\ Interleaves(gene_data[g].layers[i][2], RowsOf(rows, g))
        /\ \A j \in DOMAIN gene_data[g].layers :
             gene_data[g].layers[j][1] = Str(L) => j = i

\* C9: the list stored for gene g under the key of a layer that was read is
\* x0, y0, x1, y1, ... over the rows of that layer whose gene is g, in row
\* order, and nothing else: during the per-gene loop for every gene already
\* handled, after it for every gene; and a list once stored never changes.
C9_FlattenedInRowOrder ==
    /\ [](pc = "genes" =>
            \A j \in 1 .. NumGenes :
                j < gi => StoredFrom(genes_to_process[j], layer, df))
    /\ []((pc # "genes" /\ layer > LayerStart /\ outcome[layer - 1][1] = "ok") =>
            \A g \in GeneSet : StoredFrom(g, layer - 1, df))
    /\ [][\A g \in GeneSet :
            \A i \in DOMAIN gene_data[g].layers :
                /\ i \in DOMAIN gene_data'[g].layers
                /\ gene_data'[g].layers[i] = gene_data[g].layers[i]]_vars

C9_Witness ==
    /\ pc = "layer"
    /\ layer > LayerStart
    /\ outcome[layer - 1][1] = "ok"
    /\ Len(RowsOf(df, "adka")) = 2
    /\ StoredFrom("adka", layer - 1, df)

(* ------------------------------- C10 ----------------------------------- *)
\* C10: layers are attempted in ascending order, one at a time, each ended
\* before the next is attempted; no artifact is written and no gene is
\* skipped before every configured layer was attempted and ended; a run
\* that ended before the writer loop has written nothing.
C10_LayersThenWriter ==
    /\ [](\A i \in DOMAIN attempted : attempted[i] = LayerStart + i - 1)
    /\ [][attempted' # attempted =>
            /\ pc = "layer"
            /\ attempted' = Append(attempted, layer)
            /\ \A L \in Layers : L < layer => Ended(L)]_vars
    /\ []((\E g \in GeneSet : written[g].status # "absent" \/ g \in skipped \cup saved)
            => AllAttempted /\ \A L \in Layers : Ended(L))
    /\ []((pc = "crashed" /\ ~AllAttempted) =>
            \A g \in GeneSet : written[g].status = "absent")

C10_Witness ==
    /\ AllAttempted
    /\ layerStop - LayerStart >= 3
    /\ \E L \in Layers : outcome[L][1] = "failed"
    /\ \E g \in GeneSet : written[g].status = "complete"

====
